---- MODULE Spec2Model ----
(***************************************************************************)
(* Model of triad/collections/dict.py: IndexedOrderedDict (an OrderedDict  *)
(* with a lazily rebuilt key <-> index cache) and ParamDict (its           *)
(* string-keyed subclass with update policies and typed getters).          *)
(*                                                                         *)
(* A Python value is a record [ty, iv, sv]; a dictionary object is a       *)
(* record [cls, items, need_reindex, index_key, key_index]; every method   *)
(* is an operator from the object and its arguments to a record            *)
(* [obj, exc, ret]: the object after the call, the exception raised        *)
(* ("None" when the call returns) and the tuple of returned values.        *)
(* clone is the reference that d.copy() returned: [ref, obj], where ref    *)
(* tells whether it designates a new object (whose state is obj) or the    *)
(* object bound to d itself.                                               *)
(***************************************************************************)
EXTENDS Integers, Sequences, FiniteSets, TLC

VARIABLES d, last, clone

vars == <<d, last, clone>>

----------------------------------------------------------------------------
(* Bounds *)

MaxSize == 3

MaxIndex == 3

MaxSrcLen == 2

----------------------------------------------------------------------------
(* Python values *)

PyStr(s) == [ty |-> "str", iv |-> 0, sv |-> s]

PyInt(n) == [ty |-> "int", iv |-> n, sv |-> ""]

PyNone == [ty |-> "NoneType", iv |-> 0, sv |-> ""]

PySelf == [ty |-> "self", iv |-> 0, sv |-> ""]

PyBool(b) == [ty |-> "bool", iv |-> IF b THEN 1 ELSE 0, sv |-> ""]

isinstance_str(x) == x.ty = "str"

StrKeys == {PyStr("a"), PyStr("b")}

NonStrKeys == {PyInt(1)}

AllKeys == StrKeys \cup NonStrKeys

Values == {PyInt(1), PyStr("x")}

Indexes == (0 - MaxIndex) .. MaxIndex

NoExc == "None"

Result(o, e, r) == [obj |-> o, exc |-> e, ret |-> r]

----------------------------------------------------------------------------
(* The built-in list and OrderedDict that the classes are built on *)

Range(s) == {s[i] : i \in 1 .. Len(s)}

KeysOf(items) == [i \in 1 .. Len(items) |-> items[i][1]]

PosOf(items, key) == CHOOSE i \in 1 .. Len(items) : items[i][1] = key

RemoveAt(s, p) == [i \in 1 .. (Len(s) - 1) |-> IF i < p THEN s[i] ELSE s[i + 1]]

contains(self, key) == \E i \in 1 .. Len(self.items) : self.items[i][1] = key

getitem(self, key) ==
    IF contains(self, key)
    THEN Result(self, NoExc, <<self.items[PosOf(self.items, key)][2]>>)
    ELSE Result(self, "KeyError", <<>>)

list_getitem(list, index) ==
    IF index >= 0 /\ index < Len(list) THEN [exc |-> NoExc, ret |-> <<list[index + 1]>>]
    ELSE IF index < 0 /\ index >= 0 - Len(list)
         THEN [exc |-> NoExc, ret |-> <<list[Len(list) + index + 1]>>]
         ELSE [exc |-> "IndexError", ret |-> <<>>]

OrderedDict_setitem(items, key, value) ==
    IF \E i \in 1 .. Len(items) : items[i][1] = key
    THEN [items EXCEPT ![PosOf(items, key)] = <<key, value>>]
    ELSE Append(items, <<key, value>>)

OrderedDict_delitem(items, key) == RemoveAt(items, PosOf(items, key))

RECURSIVE OrderedDict_fill(_, _)
OrderedDict_fill(items, pairs) ==
    IF pairs = <<>> THEN items
    ELSE OrderedDict_fill(OrderedDict_setitem(items, Head(pairs)[1], Head(pairs)[2]),
                          Tail(pairs))

OrderedDict_new(pairs) == [cls |-> "OrderedDict", items |-> OrderedDict_fill(<<>>, pairs)]

dict_new(pairs) == [cls |-> "dict", items |-> OrderedDict_fill(<<>>, pairs)]

isinstance_OrderedDict(x) == x.cls \in {"OrderedDict", "IndexedOrderedDict", "ParamDict"}

isinstance_Dict(x) == x.cls \in {"dict", "OrderedDict", "IndexedOrderedDict", "ParamDict"}

dict_eq(a, b) == isinstance_Dict(b) /\ Range(a.items) = Range(b.items)

OrderedDict_eq(a, b) ==
    IF isinstance_OrderedDict(b) THEN a.items = b.items ELSE dict_eq(a, b)

----------------------------------------------------------------------------
(* IndexedOrderedDict *)

enumerate_dict(index_key) ==
    [x \in Range(index_key) |->
        (CHOOSE i \in 1 .. Len(index_key) :
            /\ index_key[i] = x
            /\ \A j \in 1 .. Len(index_key) : index_key[j] = x => j <= i) - 1]

IndexedOrderedDict_new(cls) ==
    [cls |-> cls, items |-> <<>>, need_reindex |-> TRUE,
     index_key |-> <<>>, key_index |-> enumerate_dict(<<>>)]

_build_index(self) ==
    IF self.need_reindex
    THEN [self EXCEPT !.index_key = KeysOf(self.items),
                      !.key_index = enumerate_dict(KeysOf(self.items)),
                      !.need_reindex = FALSE]
    ELSE self

index_of_key(self, key) ==
    LET s1 == _build_index(self) IN
    IF key \in DOMAIN s1.key_index
    THEN Result(s1, NoExc, <<PyInt(s1.key_index[key])>>)
    ELSE Result(s1, "KeyError", <<>>)

get_key_by_index(self, index) ==
    LET s1 == _build_index(self)
        r == list_getitem(s1.index_key, index)
    IN Result(s1, r.exc, r.ret)

get_value_by_index(self, index) ==
    LET k == get_key_by_index(self, index) IN
    IF k.exc # NoExc THEN k ELSE getitem(k.obj, k.ret[1])

get_item_by_index(self, index) ==
    LET k == get_key_by_index(self, index) IN
    IF k.exc # NoExc THEN k
    ELSE LET v == getitem(k.obj, k.ret[1]) IN
         IF v.exc # NoExc THEN v ELSE Result(v.obj, NoExc, <<k.ret[1], v.ret[1]>>)

IndexedOrderedDict_setitem(self, key, value) ==
    Result([self EXCEPT !.need_reindex = ~contains(self, key),
                        !.items = OrderedDict_setitem(self.items, key, value)],
           NoExc, <<>>)

ParamDict_setitem_unchecked(self, key, value) ==
    IndexedOrderedDict_setitem(self, key, value)

ParamDict_setitem(self, key, value) ==
    IF ~isinstance_str(key) THEN Result(self, "AssertionError", <<>>)
    ELSE IndexedOrderedDict_setitem(self, key, value)

setitem(self, key, value) ==
    IF self.cls = "ParamDict" THEN ParamDict_setitem(self, key, value)
    ELSE IndexedOrderedDict_setitem(self, key, value)

set_value_by_index(self, index, value) ==
    LET k == get_key_by_index(self, index) IN
    IF k.exc # NoExc THEN k ELSE setitem(k.obj, k.ret[1], value)

pop(self, key, has_default, default) ==
    LET s1 == [self EXCEPT !.need_reindex = TRUE] IN
    IF contains(s1, key)
    THEN Result([s1 EXCEPT !.items = OrderedDict_delitem(s1.items, key)],
                NoExc, getitem(s1, key).ret)
    ELSE IF has_default THEN Result(s1, NoExc, <<default>>)
         ELSE Result(s1, "KeyError", <<>>)

pop_by_index(self, index) ==
    LET k == get_key_by_index(self, index) IN
    IF k.exc # NoExc THEN k
    ELSE LET v == pop(k.obj, k.ret[1], FALSE, PyNone) IN
         IF v.exc # NoExc THEN v ELSE Result(v.obj, NoExc, <<k.ret[1], v.ret[1]>>)

delitem(self, key) ==
    LET s1 == [self EXCEPT !.need_reindex = TRUE] IN
    IF contains(s1, key)
    THEN Result([s1 EXCEPT !.items = OrderedDict_delitem(s1.items, key)], NoExc, <<>>)
    ELSE Result(s1, "KeyError", <<>>)

clear(self) ==
    Result([self EXCEPT !.need_reindex = TRUE, !.items = <<>>], NoExc, <<>>)

popitem(self, lastFlag) ==
    LET s1 == [self EXCEPT !.need_reindex = TRUE]
        p == IF lastFlag THEN Len(s1.items) ELSE 1
    IN IF Len(s1.items) = 0 THEN Result(s1, "KeyError", <<>>)
       ELSE Result([s1 EXCEPT !.items = RemoveAt(s1.items, p)], NoExc, s1.items[p])

move_to_end(self, key, lastFlag) ==
    LET s1 == [self EXCEPT !.need_reindex = TRUE] IN
    IF ~contains(s1, key) THEN Result(s1, "KeyError", <<>>)
    ELSE LET p == PosOf(s1.items, key)
             rest == RemoveAt(s1.items, p)
         IN Result([s1 EXCEPT !.items = IF lastFlag THEN Append(rest, s1.items[p])
                                        ELSE <<s1.items[p]>> \o rest],
                   NoExc, <<>>)

RECURSIVE OrderedDict_copy_loop(_, _)
OrderedDict_copy_loop(other, items) ==
    IF items = <<>> THEN other
    ELSE OrderedDict_copy_loop(setitem(other, Head(items)[1], Head(items)[2]).obj,
                               Tail(items))

OrderedDict_copy(self) == OrderedDict_copy_loop(IndexedOrderedDict_new(self.cls), self.items)

NewObject(o) == [ref |-> "new", obj |-> o]

SameObject(o) == [ref |-> "self", obj |-> o]

copy_returns_self(self) == Result(self, NoExc, <<SameObject(self)>>)

copy(self) ==
    LET other == OrderedDict_copy(self) IN
    Result(self, NoExc,
           <<NewObject([other EXCEPT !.need_reindex = self.need_reindex,
                                     !.index_key = self.index_key,
                                     !.key_index = self.key_index])>>)

RECURSIVE init_loop(_, _)
init_loop(self, pairs) ==
    IF pairs = <<>> THEN self
    ELSE init_loop(IndexedOrderedDict_setitem(self, Head(pairs)[1], Head(pairs)[2]).obj,
                   Tail(pairs))

IndexedOrderedDict_init(pairs) ==
    LET s1 == init_loop(IndexedOrderedDict_new("IndexedOrderedDict"), pairs) IN
    Result([s1 EXCEPT !.need_reindex = TRUE, !.index_key = <<>>,
                      !.key_index = enumerate_dict(<<>>)],
           NoExc, <<>>)

----------------------------------------------------------------------------
(* Collaborators of ParamDict: triad.utils.convert.as_type,                *)
(* triad.utils.assertion.assert_arg_not_none, triad.utils.iter.to_kv_iterable *)

str_to_int(s) == IF s = "1" THEN <<1>> ELSE IF s = "2" THEN <<2>> ELSE <<>>

int_to_str(n) == IF n = 0 THEN "0" ELSE IF n = 1 THEN "1" ELSE IF n = 2 THEN "2" ELSE "?"

type(x) == x.ty

as_type(x, target) ==
    IF x.ty = target THEN [exc |-> NoExc, ret |-> <<x>>]
    ELSE IF target = "int" /\ x.ty = "str" /\ str_to_int(x.sv) # <<>>
         THEN [exc |-> NoExc, ret |-> <<PyInt(str_to_int(x.sv)[1])>>]
         ELSE IF target = "str" /\ x.ty = "int"
              THEN [exc |-> NoExc, ret |-> <<PyStr(int_to_str(x.iv))>>]
              ELSE [exc |-> "TypeError", ret |-> <<>>]

assert_arg_not_none(x) == IF x = PyNone THEN "NoneArgumentError" ELSE NoExc

to_kv_iterable(other) == other

deepcopy(v) == v

----------------------------------------------------------------------------
(* IndexedOrderedDict.equals: other is a mapping [cls, items, ...] or a    *)
(* list of pairs (cls "list"); to_kv_iterable walks its entries in order   *)

equals_ignores_order(self, other, with_order) ==
    [obj |-> self, other |-> other, exc |-> NoExc,
     ret |-> <<PyBool(dict_eq(self, dict_new(to_kv_iterable(other.items))))>>]

equals(self, other, with_order) ==
    [obj |-> self, other |-> other, exc |-> NoExc,
     ret |-> <<PyBool(
         IF with_order
         THEN IF isinstance_OrderedDict(other) THEN OrderedDict_eq(self, other)
              ELSE OrderedDict_eq(self, OrderedDict_new(to_kv_iterable(other.items)))
         ELSE IF isinstance_OrderedDict(other) \/ ~isinstance_Dict(other)
              THEN OrderedDict_eq(self, dict_new(to_kv_iterable(other.items)))
              ELSE OrderedDict_eq(self, other))>>]

----------------------------------------------------------------------------
(* JSON text: a str holding JSON is the sequence of its tokens, each       *)
(* [tok, text]; json.dumps writes it, the key/value adapter's JSON         *)
(* ingestion reads it back                                                 *)

Punct(t) == [tok |-> t, text |-> t]

Ws(text) == [tok |-> "ws", text |-> text]

json_key(k) ==
    [tok |-> "string", text |-> IF k.ty = "str" THEN k.sv ELSE int_to_str(k.iv)]

json_value(v) ==
    IF v.ty = "str" THEN [tok |-> "string", text |-> v.sv]
    ELSE [tok |-> "number", text |-> int_to_str(v.iv)]

RECURSIVE json_members(_, _, _)
json_members(items, item_separator, key_separator) ==
    IF items = <<>> THEN <<>>
    ELSE <<json_key(Head(items)[1])>> \o key_separator \o <<json_value(Head(items)[2])>>
         \o (IF Tail(items) = <<>> THEN <<>>
             ELSE item_separator \o json_members(Tail(items), item_separator, key_separator))

json_dumps_compact(items) ==
    <<Punct("{")>> \o json_members(items, <<Punct(",")>>, <<Punct(":")>>) \o <<Punct("}")>>

json_dumps_indent4(items) ==
    IF items = <<>> THEN <<Punct("{"), Punct("}")>>
    ELSE <<Punct("{"), Ws("\n    ")>>
         \o json_members(items, <<Punct(","), Ws("\n    ")>>, <<Punct(":"), Ws(" ")>>)
         \o <<Ws("\n"), Punct("}")>>

json_loads(text) ==
    LET NotWs(t) == t.tok # "ws"
        toks == SelectSeq(text, NotWs)
        inner == SubSeq(toks, 2, Len(toks) - 1)
        n == (Len(inner) + 1) \div 4
        ValueOk(t) ==
            \/ t.tok = "string"
            \/ t.tok = "number" /\ str_to_int(t.text) # <<>>
        WellFormed ==
            /\ Len(toks) >= 2
            /\ toks[1].tok = "{"
            /\ toks[Len(toks)].tok = "}"
            /\ (Len(inner) = 0 \/ Len(inner) = 4 * n - 1)
            /\ \A j \in 1 .. n :
                  /\ inner[4 * j - 3].tok = "string"
                  /\ inner[4 * j - 2].tok = ":"
                  /\ ValueOk(inner[4 * j - 1])
                  /\ (j < n => inner[4 * j].tok = ",")
        Value(t) == IF t.tok = "string" THEN PyStr(t.text) ELSE PyInt(str_to_int(t.text)[1])
    IN IF ~WellFormed THEN [exc |-> "ValueError", ret |-> <<>>]
       ELSE [exc |-> NoExc,
             ret |-> <<[j \in 1 .. n |-> <<PyStr(inner[4 * j - 3].text), Value(inner[4 * j - 1])>>]>>]

----------------------------------------------------------------------------
(* ParamDict *)

OVERWRITE == 0

THROW == 1

IGNORE == 2

get_lookup_first(self, key, default) ==
    IF contains(self, key)
    THEN LET c == as_type(getitem(self, key).ret[1], type(default)) IN
         Result(self, c.exc, c.ret)
    ELSE IF assert_arg_not_none(default) # NoExc
         THEN Result(self, assert_arg_not_none(default), <<>>)
         ELSE Result(self, NoExc, <<default>>)

get(self, key, default) ==
    IF assert_arg_not_none(default) # NoExc
    THEN Result(self, assert_arg_not_none(default), <<>>)
    ELSE IF contains(self, key)
         THEN LET c == as_type(getitem(self, key).ret[1], type(default)) IN
              Result(self, c.exc, c.ret)
         ELSE Result(self, NoExc, <<default>>)

_get_or(self, key, expected_type, throw) ==
    IF contains(self, key)
    THEN LET c == as_type(getitem(self, key).ret[1], expected_type) IN
         Result(self, c.exc, c.ret)
    ELSE IF throw THEN Result(self, "KeyError", <<>>)
         ELSE Result(self, NoExc, <<PyNone>>)

get_or_none_throws(self, key, expected_type) == _get_or(self, key, expected_type, TRUE)

get_or_none(self, key, expected_type) == _get_or(self, key, expected_type, FALSE)

get_or_throw(self, key, expected_type) == _get_or(self, key, expected_type, TRUE)

to_json_str_reversed(self, indent) ==
    LET rev == [i \in 1 .. Len(self.items) |-> self.items[Len(self.items) + 1 - i]] IN
    IF ~indent THEN Result(self, NoExc, <<json_dumps_compact(rev)>>)
    ELSE Result(self, NoExc, <<json_dumps_indent4(rev)>>)

to_json_str(self, indent) ==
    IF ~indent THEN Result(self, NoExc, <<json_dumps_compact(self.items)>>)
    ELSE Result(self, NoExc, <<json_dumps_indent4(self.items)>>)

update_step_ignore_sets(self, k, v, on_dup, deep) ==
    IF on_dup = OVERWRITE \/ on_dup = IGNORE \/ ~contains(self, k)
    THEN setitem(self, k, IF deep THEN deepcopy(v) ELSE v)
    ELSE IF on_dup = THROW THEN Result(self, "KeyError", <<>>)
         ELSE Result(self, "ValueError", <<>>)

update_step_throw_late(self, k, v, on_dup, deep) ==
    IF on_dup = OVERWRITE \/ on_dup = THROW \/ ~contains(self, k)
    THEN LET r == setitem(self, k, IF deep THEN deepcopy(v) ELSE v) IN
         IF on_dup = THROW /\ contains(self, k) /\ r.exc = NoExc
         THEN Result(r.obj, "KeyError", <<>>)
         ELSE r
    ELSE IF on_dup = IGNORE THEN Result(self, NoExc, <<>>)
         ELSE Result(self, "ValueError", <<>>)

update_step(self, k, v, on_dup, deep) ==
    IF on_dup = OVERWRITE \/ ~contains(self, k)
    THEN setitem(self, k, IF deep THEN deepcopy(v) ELSE v)
    ELSE IF on_dup = THROW THEN Result(self, "KeyError", <<>>)
         ELSE IF on_dup = IGNORE THEN Result(self, NoExc, <<>>)
              ELSE Result(self, "ValueError", <<>>)

RECURSIVE update_loop(_, _, _, _)
update_loop(self, pairs, on_dup, deep) ==
    IF pairs = <<>> THEN Result(self, NoExc, <<PySelf>>)
    ELSE LET r == update_step(self, Head(pairs)[1], Head(pairs)[2], on_dup, deep) IN
         IF r.exc # NoExc THEN r
         ELSE update_loop(r.obj, Tail(pairs), on_dup, deep)

RECURSIVE update_loop_snapshot(_, _, _, _, _)
update_loop_snapshot(orig, self, pairs, on_dup, deep) ==
    IF pairs = <<>> THEN Result(self, NoExc, <<PySelf>>)
    ELSE LET k == Head(pairs)[1]
             v == Head(pairs)[2]
             r == IF on_dup = OVERWRITE \/ ~contains(orig, k)
                  THEN setitem(self, k, IF deep THEN deepcopy(v) ELSE v)
                  ELSE IF on_dup = THROW THEN Result(self, "KeyError", <<>>)
                       ELSE IF on_dup = IGNORE THEN Result(self, NoExc, <<>>)
                            ELSE Result(self, "ValueError", <<>>)
         IN IF r.exc # NoExc THEN r
            ELSE update_loop_snapshot(orig, r.obj, Tail(pairs), on_dup, deep)

update_snapshot(self, other, on_dup, deep) ==
    update_loop_snapshot(self, self, to_kv_iterable(other), on_dup, deep)

update(self, other, on_dup, deep) ==
    update_loop(self, to_kv_iterable(other), on_dup, deep)

ParamDict_init(data, deep) ==
    update(IndexedOrderedDict_new("ParamDict"), data, OVERWRITE, deep)

----------------------------------------------------------------------------
(* Inputs *)

Pairs == AllKeys \X Values

Sources == UNION {[1 .. n -> Pairs] : n \in 0 .. MaxSrcLen}

Policies == {OVERWRITE, THROW, IGNORE, 3}

Defaults == {PyNone, PyInt(0), PyStr("d")}

Types == {"int", "str"}

----------------------------------------------------------------------------
(* One action per call made on the object bound to d.  last records the    *)
(* call: its name, the policy argument of an update, len(d) before the     *)
(* call and the exception it raised.                                       *)

Call(op, args, r) ==
    /\ Len(r.obj.items) <= MaxSize
    /\ d' = r.obj
    /\ last' = [op |-> op, args |-> args, old_len |-> Len(d.items), exc |-> r.exc]
    /\ UNCHANGED clone

New(op, args, r) ==
    /\ Len(r.obj.items) <= MaxSize
    /\ d' = IF r.exc = NoExc THEN r.obj ELSE d
    /\ last' = [op |-> op, args |-> args, old_len |-> 0, exc |-> r.exc]
    /\ UNCHANGED clone

ConstructIndexed ==
    \E src \in Sources : New("__init__", <<>>, IndexedOrderedDict_init(src))

ConstructParam ==
    \E src \in Sources, deep \in BOOLEAN :
        New("__init__", <<>>, ParamDict_init(src, deep))

IndexOfKey == \E k \in AllKeys : Call("index_of_key", <<>>, index_of_key(d, k))

GetKeyByIndex ==
    \E i \in Indexes : Call("get_key_by_index", <<>>, get_key_by_index(d, i))

GetValueByIndex ==
    \E i \in Indexes : Call("get_value_by_index", <<>>, get_value_by_index(d, i))

GetItemByIndex ==
    \E i \in Indexes : Call("get_item_by_index", <<>>, get_item_by_index(d, i))

SetValueByIndex ==
    \E i \in Indexes, v \in Values :
        Call("set_value_by_index", <<>>, set_value_by_index(d, i, v))

PopByIndex ==
    \E i \in Indexes : Call("pop_by_index", <<>>, pop_by_index(d, i))

SetItem ==
    \E k \in AllKeys, v \in Values : Call("__setitem__", <<>>, setitem(d, k, v))

DelItem == \E k \in AllKeys : Call("__delitem__", <<>>, delitem(d, k))

Clear == Call("clear", <<>>, clear(d))

PopItem == \E l \in BOOLEAN : Call("popitem", <<>>, popitem(d, l))

MoveToEnd ==
    \E k \in AllKeys, l \in BOOLEAN : Call("move_to_end", <<>>, move_to_end(d, k, l))

Pop ==
    \/ \E k \in AllKeys : Call("pop", <<>>, pop(d, k, FALSE, PyNone))
    \/ \E k \in AllKeys, v \in Defaults : Call("pop", <<>>, pop(d, k, TRUE, v))

GetItem == \E k \in AllKeys : Call("__getitem__", <<>>, getitem(d, k))

Update ==
    \E src \in Sources, on_dup \in Policies, deep \in BOOLEAN :
        Call("update", <<PyInt(on_dup)>>, update(d, src, on_dup, deep))

Get ==
    \E k \in AllKeys, v \in Defaults : Call("get", <<>>, get(d, k, v))

GetOrNone ==
    \E k \in AllKeys, t \in Types : Call("get_or_none", <<>>, get_or_none(d, k, t))

GetOrThrow ==
    \E k \in AllKeys, t \in Types : Call("get_or_throw", <<>>, get_or_throw(d, k, t))

OtherKinds == {"same", "OrderedDict", "dict", "list"}

AsKind(o, cls) ==
    IF cls = "same" THEN o ELSE [IndexedOrderedDict_new(cls) EXCEPT !.items = o.items]

EqualsOperands(o) ==
    {o} \cup {move_to_end(o, k, TRUE).obj : k \in Range(KeysOf(o.items))}
        \cup {setitem(o, k, v).obj : k \in Range(KeysOf(o.items)), v \in Values}
        \cup {delitem(o, k).obj : k \in Range(KeysOf(o.items))}

Equals ==
    \E o \in EqualsOperands(d), c \in OtherKinds, w \in BOOLEAN :
        LET r == equals(d, AsKind(o, c), w) IN
        Call("equals", <<PyBool(w), r.ret[1]>>, r)

ToJsonStr == \E indent \in BOOLEAN : Call("to_json_str", <<>>, to_json_str(d, indent))

ConstructParamFromJson ==
    \E indent \in BOOLEAN, deep \in BOOLEAN :
        LET data == json_loads(to_json_str(d, indent).ret[1]) IN
        /\ data.exc = NoExc
        /\ New("__init__", <<PyStr("json"), PyBool(indent)>>, ParamDict_init(data.ret[1], deep))

----------------------------------------------------------------------------
(* A dictionary and its copy: d.copy() binds clone, and calls are then     *)
(* made on either of the two                                               *)

NoClone == [ref |-> "none", obj |-> IndexedOrderedDict_new("IndexedOrderedDict")]

Deref(c) == IF c.ref = "self" THEN d ELSE c.obj

CallsOn(o) ==
    {[op |-> "__setitem__", r |-> setitem(o, k, v)] : k \in StrKeys, v \in Values}
        \cup {[op |-> "__delitem__", r |-> delitem(o, k)] : k \in StrKeys}
        \cup {[op |-> "move_to_end", r |-> move_to_end(o, k, TRUE)] : k \in StrKeys}
        \cup {[op |-> "index_of_key", r |-> [index_of_key(o, k) EXCEPT !.ret = <<>>]] :
                  k \in StrKeys}

Copy ==
    LET r == copy(d) IN
    /\ d' = r.obj
    /\ clone' = r.ret[1]
    /\ last' = [op |-> "copy", args |-> <<>>, old_len |-> Len(d.items), exc |-> r.exc]

CallOnSource ==
    \E c \in CallsOn(d) :
        /\ Len(c.r.obj.items) <= MaxSize
        /\ d' = c.r.obj
        /\ last' = [op |-> c.op, args |-> <<PyStr("d")>>, old_len |-> Len(d.items),
                    exc |-> c.r.exc]
        /\ UNCHANGED clone

CallOnClone ==
    /\ clone.ref # "none"
    /\ \E c \in CallsOn(Deref(clone)) :
          /\ Len(c.r.obj.items) <= MaxSize
          /\ IF clone.ref = "self"
             THEN d' = c.r.obj /\ UNCHANGED clone
             ELSE clone' = [clone EXCEPT !.obj = c.r.obj] /\ UNCHANGED d
          /\ last' = [op |-> c.op, args |-> <<PyStr("clone")>>,
                      old_len |-> Len(Deref(clone).items), exc |-> c.r.exc]

----------------------------------------------------------------------------
(* Specifications: an IndexedOrderedDict, a ParamDict, and an            *)
(* IndexedOrderedDict with its copy                                        *)

InitLast == [op |-> "__init__", args |-> <<>>, old_len |-> 0, exc |-> NoExc]

InitIndexed ==
    /\ d = IndexedOrderedDict_init(<<>>).obj
    /\ last = InitLast
    /\ clone = NoClone

InitParam ==
    /\ d = ParamDict_init(<<>>, TRUE).obj
    /\ last = InitLast
    /\ clone = NoClone

NextIndexed ==
    \/ ConstructIndexed
    \/ IndexOfKey
    \/ GetKeyByIndex
    \/ GetValueByIndex
    \/ GetItemByIndex
    \/ SetValueByIndex
    \/ PopByIndex
    \/ SetItem
    \/ DelItem
    \/ Clear
    \/ PopItem
    \/ MoveToEnd
    \/ Pop
    \/ GetItem
    \/ Equals

NextParam ==
    \/ ConstructParam
    \/ IndexOfKey
    \/ GetKeyByIndex
    \/ GetValueByIndex
    \/ GetItemByIndex
    \/ SetValueByIndex
    \/ PopByIndex
    \/ SetItem
    \/ DelItem
    \/ Clear
    \/ PopItem
    \/ MoveToEnd
    \/ Pop
    \/ GetItem
    \/ Equals
    \/ Update
    \/ ToJsonStr
    \/ ConstructParamFromJson
    \/ Get
    \/ GetOrNone
    \/ GetOrThrow

InitCopy ==
    /\ d = IndexedOrderedDict_init(<<>>).obj
    /\ last = InitLast
    /\ clone = NoClone

NextCopy ==
    \/ Copy
    \/ CallOnSource
    \/ CallOnClone

Spec == InitIndexed /\ [][NextIndexed]_vars

SpecParam == InitParam /\ [][NextParam]_vars

SpecCopy == InitCopy /\ [][NextCopy]_vars

----------------------------------------------------------------------------
(* The reference view of a dictionary: the plain list of its entries *)

Size(o) == Len(o.items)

ValidIndexes(o) == 0 .. (Size(o) - 1)

RefKeyAt(o, i) == o.items[i + 1][1]

RefValueAt(o, i) == o.items[i + 1][2]

RefIndexOf(o, key) == PosOf(o.items, key) - 1

Outcome(r) == <<r.exc, r.ret>>

IndexAccessors ==
    {"index_of_key", "get_key_by_index", "get_value_by_index", "get_item_by_index",
     "set_value_by_index", "pop_by_index"}

----------------------------------------------------------------------------
(* C1: in every reachable state the index accessors answer as a plain      *)
(* ordered list of the entries would: get_key_by_index(i) is the i-th key, *)
(* get_value_by_index(i) its value, get_item_by_index(i) the pair, and     *)
(* index_of_key(k) the zero-based position of every present key k.         *)
C1_MatchesReferenceList ==
    /\ \A i \in ValidIndexes(d) :
          /\ Outcome(get_key_by_index(d, i)) = <<NoExc, <<RefKeyAt(d, i)>> >>
          /\ Outcome(get_value_by_index(d, i)) = <<NoExc, <<RefValueAt(d, i)>> >>
          /\ Outcome(get_item_by_index(d, i)) = <<NoExc, <<RefKeyAt(d, i), RefValueAt(d, i)>> >>
    /\ \A k \in AllKeys :
          contains(d, k) =>
              Outcome(index_of_key(d, k)) = <<NoExc, <<PyInt(RefIndexOf(d, k))>> >>

(* C2: after any index-using accessor call, for every valid index i both   *)
(* get_key_by_index(i) and index_of_key of that key succeed, and the       *)
(* latter returns i.                                                       *)
C2_IndexRoundTrip ==
    last.op \in IndexAccessors =>
        \A i \in ValidIndexes(d) :
            LET k == get_key_by_index(d, i) IN
            /\ k.exc = NoExc
            /\ Outcome(index_of_key(k.obj, k.ret[1])) = <<NoExc, <<PyInt(i)>> >>

(* C3: in every reachable state, assigning a value to a key that is        *)
(* already present changes neither the outcome of get_key_by_index(i) for  *)
(* any i nor the outcome of index_of_key(k2) for any other key k2.         *)
C3_ValueUpdateKeepsIndexResults ==
    \A k \in AllKeys, v \in Values :
        contains(d, k) =>
            LET after == setitem(d, k, v).obj IN
            /\ \A i \in Indexes :
                  Outcome(get_key_by_index(after, i)) = Outcome(get_key_by_index(d, i))
            /\ \A k2 \in AllKeys \ {k} :
                  Outcome(index_of_key(after, k2)) = Outcome(index_of_key(d, k2))

(* C4: in every reachable state each positional accessor fails with        *)
(* IndexError and returns nothing when the index is outside [0, size),     *)
(* negative indexes included, and does not fail when it is inside.         *)
C4_IndexRangeChecked ==
    \A i \in Indexes, v \in Values :
        LET rs == {get_key_by_index(d, i), get_value_by_index(d, i),
                   get_item_by_index(d, i), set_value_by_index(d, i, v),
                   pop_by_index(d, i)}
        IN \A r \in rs :
               IF i \in ValidIndexes(d) THEN r.exc = NoExc
               ELSE r.exc = "IndexError" /\ r.ret = <<>>

(* C5: in every reachable state index_of_key(k) fails with KeyError        *)
(* exactly when k is not a key of the dictionary.                          *)
C5_IndexOfKeyFailsIffAbsent ==
    \A k \in AllKeys :
        (index_of_key(d, k).exc = "KeyError") <=> ~contains(d, k)

----------------------------------------------------------------------------
(* Reading a source of pairs *)

StrSource(src) == \A j \in 1 .. Len(src) : isinstance_str(src[j][1])

SrcKeys(src) == {src[j][1] : j \in 1 .. Len(src)}

FirstOcc(src, k) ==
    CHOOSE j \in 1 .. Len(src) :
        src[j][1] = k /\ \A j2 \in 1 .. (j - 1) : src[j2][1] # k

LastOcc(src, k) ==
    CHOOSE j \in 1 .. Len(src) :
        src[j][1] = k /\ \A j2 \in (j + 1) .. Len(src) : src[j2][1] # k

NewKeys(o, src) == {k \in SrcKeys(src) : ~contains(o, k)}

RefValueOf(o, k) == o.items[PosOf(o.items, k)][2]

Min(S) == CHOOSE x \in S : \A y \in S : x <= y

MergedValue(o, src, on_dup, k) ==
    IF on_dup = OVERWRITE
    THEN IF k \in SrcKeys(src) THEN src[LastOcc(src, k)][2] ELSE RefValueOf(o, k)
    ELSE IF contains(o, k) THEN RefValueOf(o, k) ELSE src[FirstOcc(src, k)][2]

Merged(o, src, on_dup, r) ==
    LET n == r.obj.items
        old == 1 .. Size(o)
        new == (Size(o) + 1) .. Len(n)
    IN /\ r.exc = NoExc
       /\ r.ret = <<PySelf>>
       /\ Len(n) = Size(o) + Cardinality(NewKeys(o, src))
       /\ \A i \in old : n[i][1] = o.items[i][1]
       /\ \A i \in new : n[i][1] \in NewKeys(o, src)
       /\ \A i \in new, j \in new :
              i < j => FirstOcc(src, n[i][1]) < FirstOcc(src, n[j][1])
       /\ \A i \in 1 .. Len(n) : n[i][2] = MergedValue(o, src, on_dup, n[i][1])

ExampleBase ==
    ParamDict_init(<< <<PyStr("a"), PyInt(1)>>, <<PyStr("b"), PyInt(2)>> >>, TRUE).obj

ExampleSource == << <<PyStr("b"), PyInt(9)>>, <<PyStr("c"), PyInt(3)>> >>

(* The properties below speak of the object d alone, for every argument of *)
(* the call they are about.  __getitem__ is enabled in every state and     *)
(* changes nothing, so every reachable object is also seen right after a   *)
(* __getitem__ call; the properties are evaluated in those states, once    *)
(* per object instead of once per recorded call.                           *)
AtRest == last.op = "__getitem__"

(* C6: update under OVERWRITE or IGNORE with a string-keyed source returns *)
(* the dictionary itself without failing; keys present before keep their   *)
(* positions, new keys are appended in order of first occurrence; under    *)
(* OVERWRITE a source key gets the value of its last occurrence, under     *)
(* IGNORE a present key keeps its value and a new key gets the value of    *)
(* its first occurrence; {a:1,b:2} merged with [(b,9),(c,3)] gives         *)
(* {a:1,b:9,c:3} resp. {a:1,b:2,c:3}.                                      *)
C6_MergeOverwriteIgnore ==
    /\ AtRest =>
          \A src \in Sources, on_dup \in {OVERWRITE, IGNORE}, deep \in BOOLEAN :
              StrSource(src) => Merged(d, src, on_dup, update(d, src, on_dup, deep))
    /\ update(ExampleBase, ExampleSource, OVERWRITE, TRUE).obj.items =
          << <<PyStr("a"), PyInt(1)>>, <<PyStr("b"), PyInt(9)>>, <<PyStr("c"), PyInt(3)>> >>
    /\ update(ExampleBase, ExampleSource, IGNORE, TRUE).obj.items =
          << <<PyStr("a"), PyInt(1)>>, <<PyStr("b"), PyInt(2)>>, <<PyStr("c"), PyInt(3)>> >>

C6_Witness ==
    /\ last.op = "update"
    /\ last.args = <<PyInt(IGNORE)>>
    /\ last.exc = NoExc
    /\ last.old_len = 1
    /\ Size(d) = 2
    /\ d.cls = "ParamDict"

DupPositions(o, src) ==
    {j \in 1 .. Len(src) :
        contains(o, src[j][1]) \/ \E j2 \in 1 .. (j - 1) : src[j2][1] = src[j][1]}

(* C7: update under THROW with a string-keyed source fails with KeyError   *)
(* at the first pair whose key is present when that pair is processed,     *)
(* leaving the dictionary as it was plus exactly the pairs before that     *)
(* one, appended in source order; when no pair's key is present it         *)
(* appends all pairs and returns the dictionary.                           *)
C7_ThrowAppliesPrefix ==
    \A src \in Sources, deep \in BOOLEAN :
        AtRest /\ StrSource(src) =>
            LET r == update(d, src, THROW, deep) IN
            IF DupPositions(d, src) = {}
            THEN /\ r.exc = NoExc
                 /\ r.ret = <<PySelf>>
                 /\ r.obj.items = d.items \o src
            ELSE /\ r.exc = "KeyError"
                 /\ r.ret = <<>>
                 /\ r.obj.items = d.items \o SubSeq(src, 1, Min(DupPositions(d, src)) - 1)

C7_Witness ==
    /\ last.op = "update"
    /\ last.args = <<PyInt(THROW)>>
    /\ last.exc = "KeyError"
    /\ last.old_len = 1
    /\ Size(d) = 2

(* C8: update with a policy other than OVERWRITE, THROW and IGNORE fails   *)
(* with ValueError for every non-empty string-keyed source, whether or not *)
(* a source key is already present.                                        *)
C8_InvalidPolicyRejected ==
    \A src \in Sources \ {<<>>}, on_dup \in Policies \ {OVERWRITE, THROW, IGNORE},
       deep \in BOOLEAN :
        StrSource(src) => update(d, src, on_dup, deep).exc = "ValueError"

FirstNonStr(src) == Min({j \in 1 .. Len(src) : ~isinstance_str(src[j][1])})

KeyTypeEnforced(err) ==
    /\ \A j \in 1 .. Size(d) : isinstance_str(d.items[j][1])
    /\ \A k \in NonStrKeys, v \in Values : setitem(d, k, v) = Result(d, err, <<>>)
    /\ \A src \in Sources, on_dup \in Policies, deep \in BOOLEAN :
          AtRest /\ ~StrSource(src) =>
              LET before == update(d, SubSeq(src, 1, FirstNonStr(src) - 1), on_dup, deep) IN
              before.exc = NoExc =>
                  update(d, src, on_dup, deep) = Result(before.obj, err, <<>>)
    /\ \A src \in Sources, deep \in BOOLEAN :
          AtRest /\ ~StrSource(src) => ParamDict_init(src, deep).exc = err
    /\ \A i \in Indexes, v \in Values :
          LET r == set_value_by_index(d, i, v) IN
          \A j \in 1 .. Size(r.obj) : isinstance_str(r.obj.items[j][1])

C10_TypedGet ==
    \A k \in AllKeys, dflt \in Defaults :
        LET r == get(d, k, dflt) IN
        /\ r.obj = d
        /\ IF dflt = PyNone THEN Outcome(r) = <<"NoneArgumentError", <<>> >>
           ELSE IF contains(d, k)
                THEN LET c == as_type(RefValueOf(d, k), dflt.ty) IN
                     /\ Outcome(r) = <<c.exc, c.ret>>
                     /\ r.exc \in {NoExc, "TypeError"}
                     /\ r.exc = NoExc => r.ret[1].ty = dflt.ty
                ELSE Outcome(r) = <<NoExc, <<dflt>> >>

C10_Witness ==
    /\ last.op = "get"
    /\ last.exc = "TypeError"
    /\ d.cls = "ParamDict"


(* C11: get_or_none and get_or_throw never change the dictionary; on a     *)
(* present key both give the stored value coerced to expected_type, or     *)
(* fail with TypeError; on an absent key get_or_none returns None (and     *)
(* never fails with KeyError) while get_or_throw fails with KeyError.      *)
C11_GetOrNoneGetOrThrow ==
    \A k \in AllKeys, t \in Types :
        LET n == get_or_none(d, k, t)
            th == get_or_throw(d, k, t)
        IN /\ n.obj = d
           /\ th.obj = d
           /\ n.exc # "KeyError"
           /\ IF contains(d, k)
              THEN LET c == as_type(RefValueOf(d, k), t) IN
                   /\ Outcome(n) = <<c.exc, c.ret>>
                   /\ Outcome(th) = <<c.exc, c.ret>>
                   /\ c.exc \in {NoExc, "TypeError"}
              ELSE /\ Outcome(n) = <<NoExc, <<PyNone>> >>
                   /\ Outcome(th) = <<"KeyError", <<>> >>

C11_Witness ==
    /\ last.op = "get_or_throw"
    /\ last.exc = "KeyError"
    /\ d.cls = "ParamDict"
    /\ Size(d) = 1


(* C12: in every reachable state, equals(other, with_order = True) holds   *)
(* exactly when other has the same (key, value) pairs in the same order,   *)
(* and equals(other, with_order = False) exactly when it has the same      *)
(* key-to-value relation; so d equals itself both ways, d is not           *)
(* order-sensitive-equal but is order-insensitive-equal to d after         *)
(* move_to_end of a key that is not last; and equals changes neither       *)
(* operand nor the index cache.                                            *)
C12_Equals ==
    /\ \A o \in EqualsOperands(d), c \in OtherKinds :
          LET other == AsKind(o, c)
              t == equals(d, other, TRUE)
              f == equals(d, other, FALSE)
          IN /\ t.ret = <<PyBool(d.items = other.items)>>
             /\ f.ret = <<PyBool(Range(d.items) = Range(other.items))>>
             /\ t.exc = NoExc /\ f.exc = NoExc
             /\ t.obj = d /\ f.obj = d
             /\ t.other = other /\ f.other = other
    /\ equals(d, d, TRUE).ret = <<PyBool(TRUE)>>
    /\ equals(d, d, FALSE).ret = <<PyBool(TRUE)>>
    /\ \A i \in ValidIndexes(d) :
          i < Size(d) - 1 =>
              LET m == move_to_end(d, RefKeyAt(d, i), TRUE).obj IN
              /\ equals(d, m, TRUE).ret = <<PyBool(FALSE)>>
              /\ equals(d, m, FALSE).ret = <<PyBool(TRUE)>>

C12_Witness ==
    /\ last.op = "equals"
    /\ last.args = <<PyBool(TRUE), PyBool(FALSE)>>
    /\ Size(d) = 2
    /\ ~d.need_reindex
    /\ equals(d, move_to_end(d, RefKeyAt(d, 0), TRUE).obj, TRUE).ret = <<PyBool(FALSE)>>


(* C13: for every reachable ParamDict, both the compact and the indented   *)
(* to_json_str text, read back by the adapter's JSON ingestion and given   *)
(* to the ParamDict constructor, yield a dictionary with the same keys in  *)
(* the same order and equal values (equals with with_order = True);        *)
(* to_json_str leaves the dictionary unchanged.                            *)
C13_JsonRoundTrip ==
    \A indent \in BOOLEAN, deep \in BOOLEAN :
        LET t == to_json_str(d, indent)
            data == json_loads(t.ret[1])
        IN /\ t.exc = NoExc
           /\ t.obj = d
           /\ data.exc = NoExc
           /\ LET n == ParamDict_init(data.ret[1], deep) IN
              /\ n.exc = NoExc
              /\ n.obj.items = d.items
              /\ equals(n.obj, d, TRUE).ret = <<PyBool(TRUE)>>
              /\ equals(d, n.obj, TRUE).ret = <<PyBool(TRUE)>>

C13_Witness ==
    /\ last.op = "__init__"
    /\ last.args = <<PyStr("json"), PyBool(TRUE)>>
    /\ last.exc = NoExc
    /\ d.cls = "ParamDict"
    /\ Size(d) = 2
    /\ RefValueAt(d, 0).ty # RefValueAt(d, 1).ty


(* The answers of the read accessors on an object *)
AccessorOutcomes(o) ==
    [get_key_by_index |-> [i \in Indexes |-> Outcome(get_key_by_index(o, i))],
     get_value_by_index |-> [i \in Indexes |-> Outcome(get_value_by_index(o, i))],
     get_item_by_index |-> [i \in Indexes |-> Outcome(get_item_by_index(o, i))],
     index_of_key |-> [k \in AllKeys |-> Outcome(index_of_key(o, k))],
     getitem |-> [k \in AllKeys |-> Outcome(getitem(o, k))]]

FailingCalls(o) ==
    {r \in {delitem(o, k) : k \in AllKeys}
           \cup {pop(o, k, FALSE, PyNone) : k \in AllKeys}
           \cup {move_to_end(o, k, l) : k \in AllKeys, l \in BOOLEAN}
           \cup {popitem(o, l) : l \in BOOLEAN}
           \cup {get_key_by_index(o, i) : i \in Indexes \ ValidIndexes(o)}
           \cup {get_value_by_index(o, i) : i \in Indexes \ ValidIndexes(o)}
           \cup {set_value_by_index(o, i, v) : i \in Indexes \ ValidIndexes(o), v \in Values}
           \cup {pop_by_index(o, i) : i \in Indexes \ ValidIndexes(o)}
           \cup {index_of_key(o, k) : k \in {k2 \in AllKeys : ~contains(o, k2)}} :
        r.exc # NoExc}

(* C14: in every reachable state, a single-entry call that fails (delete,  *)
(* pop without default or move_to_end of an absent key, popitem on an      *)
(* empty dictionary, a positional call with an invalid index, index_of_key *)
(* of an absent key) leaves the entries and their order unchanged, and     *)
(* every accessor answers afterwards as it would have answered before.     *)
C14_FailedCallNoEffect ==
    \A r \in FailingCalls(d) :
        /\ r.obj.items = d.items
        /\ AccessorOutcomes(r.obj) = AccessorOutcomes(d)


(* C15: in every reachable state in which need_reindex is clear, index_key *)
(* is the current sequence of keys in order (same length as the            *)
(* dictionary) and key_index is its exact inverse: its domain is the       *)
(* current key set and key_index[index_key[i]] = i for every i.            *)
C15_CacheConsistent ==
    ~d.need_reindex =>
        /\ Len(d.index_key) = Size(d)
        /\ d.index_key = KeysOf(d.items)
        /\ DOMAIN d.key_index = Range(KeysOf(d.items))
        /\ \A i \in ValidIndexes(d) : d.key_index[d.index_key[i + 1]] = i


StructuralOps ==
    {"__setitem__", "__delitem__", "clear", "pop", "popitem", "move_to_end",
     "pop_by_index", "set_value_by_index"}

(* C16: the cache is Stale (need_reindex set) on a new object; a step      *)
(* takes it from Stale to Fresh only when it is an index-using accessor,   *)
(* and then both index arrays are those of the key order at the call; a    *)
(* step takes it from Fresh to Stale only when it is a mutating call, and  *)
(* every change of the key order does; assigning to a present key keeps    *)
(* Fresh as Fresh.                                                         *)
C16_CacheStateMachine ==
    [][/\ last'.op = "__init__" => d'.need_reindex
       /\ last'.op # "__init__" =>
            /\ (d.need_reindex /\ ~d'.need_reindex) =>
                  /\ last'.op \in IndexAccessors
                  /\ d'.index_key = KeysOf(d.items)
                  /\ d'.key_index = enumerate_dict(KeysOf(d.items))
            /\ (~d.need_reindex /\ d'.need_reindex) => last'.op \in StructuralOps
            /\ (~d.need_reindex /\ KeysOf(d'.items) # KeysOf(d.items)) => d'.need_reindex
            /\ (~d.need_reindex /\ last'.op = "__setitem__"
                   /\ KeysOf(d'.items) = KeysOf(d.items)) => ~d'.need_reindex]_vars


(* C17: every call that structurally mutates the dictionary ends with      *)
(* need_reindex set, whatever the flag was before: a call that returns     *)
(* and has changed the sequence of keys (a new key inserted, an entry      *)
(* deleted, popped or moved), and every delete, clear, pop, popitem,       *)
(* move_to_end and pop_by_index that returns.                              *)
C17_StructuralMutationSetsFlag ==
    [][(last'.op # "__init__" /\ last'.exc = NoExc) =>
          /\ KeysOf(d'.items) # KeysOf(d.items) => d'.need_reindex
          /\ last'.op \in {"__delitem__", "clear", "pop", "popitem", "move_to_end",
                           "pop_by_index"} => d'.need_reindex]_vars


(* C18: within one update call the duplicate check of each pair is made    *)
(* against the dictionary as it is when that pair is processed: in every   *)
(* reachable state, for a source that gives twice a string key k absent    *)
(* from the dictionary, THROW inserts the first occurrence and raises      *)
(* KeyError on the second, IGNORE keeps the first occurrence's value, and  *)
(* OVERWRITE ends with the last occurrence's value.                        *)
C18_DuplicateCheckedPerPair ==
    \A k \in StrKeys, v1 \in Values, v2 \in Values, deep \in BOOLEAN :
        ~contains(d, k) =>
            LET src == <<<<k, v1>>, <<k, v2>>>>
                th == update(d, src, THROW, deep)
                ig == update(d, src, IGNORE, deep)
                ow == update(d, src, OVERWRITE, deep)
            IN /\ th.exc = "KeyError"
               /\ th.obj.items = Append(d.items, <<k, v1>>)
               /\ ig.exc = NoExc
               /\ ig.obj.items = Append(d.items, <<k, v1>>)
               /\ ow.exc = NoExc
               /\ ow.obj.items = Append(d.items, <<k, v2>>)

C18_Witness ==
    /\ last.op = "update"
    /\ last.args = <<PyInt(THROW)>>
    /\ last.exc = "KeyError"
    /\ last.old_len = 0
    /\ d.cls = "ParamDict"
    /\ Size(d) = 1


(* C19: in every reachable state and for every index i in [0, size),       *)
(* pop_by_index(i) returns the i-th (key, value) of the current order,     *)
(* removes exactly that entry, keeps the others in order and leaves        *)
(* need_reindex set; set_value_by_index(i, v) replaces the value of the    *)
(* i-th entry only and leaves need_reindex clear.                          *)
C19_PopAndSetByIndex ==
    \A i \in ValidIndexes(d) :
        /\ LET r == pop_by_index(d, i) IN
           /\ Outcome(r) = <<NoExc, <<RefKeyAt(d, i), RefValueAt(d, i)>> >>
           /\ r.obj.items = RemoveAt(d.items, i + 1)
           /\ r.obj.need_reindex
        /\ \A v \in Values :
              LET s == set_value_by_index(d, i, v) IN
              /\ s.exc = NoExc
              /\ s.obj.items = [d.items EXCEPT ![i + 1] = <<RefKeyAt(d, i), v>>]
              /\ ~s.obj.need_reindex


(* The answers of the index accessors on an object of at most two entries *)
IndexAnswers(o) ==
    <<[k \in StrKeys |-> Outcome(index_of_key(o, k))],
      [i \in 0 .. 1 |-> Outcome(get_key_by_index(o, i))]>>

(* C20: copy() returns a new object with the same entries in the same      *)
(* order, the same need_reindex and the same index_key and key_index as    *)
(* the source has at the call, and changes nothing in the source (no       *)
(* rebuild on either); afterwards a call made on one of the two changes    *)
(* neither the entries, nor the flag, nor the cached index, nor any        *)
(* accessor answer of the other.                                           *)
C20_CopyIndependent ==
    [][/\ last'.op = "copy" =>
             /\ last'.exc = NoExc
             /\ d' = d
             /\ clone'.ref = "new"
             /\ clone'.obj = d
       /\ (last'.op # "copy" /\ last'.args = <<PyStr("d")>>) =>
             LET before == Deref(clone)
                 after == IF clone'.ref = "self" THEN d' ELSE clone'.obj
             IN /\ after = before
                /\ IndexAnswers(after) = IndexAnswers(before)
       /\ (last'.op # "copy" /\ last'.args = <<PyStr("clone")>>) =>
             /\ d' = d
             /\ IndexAnswers(d') = IndexAnswers(d)]_vars

C20_Witness ==
    /\ clone.ref = "new"
    /\ last.args = <<PyStr("d")>>
    /\ last.op = "__setitem__"
    /\ ~clone.obj.need_reindex
    /\ clone.obj.index_key # KeysOf(clone.obj.items)
    /\ Size(clone.obj) = 2
    /\ d.items # clone.obj.items
    /\ d.need_reindex

====
